---- MODULE Spec2Model ----
(***************************************************************************)
(* Negotiation engine (SalesAgent, app.py) and incoterm price calculator   *)
(* (calculate_total_price, utils.py) of the otoz chat demo.                *)
(*                                                                         *)
(* Money in the negotiation engine is in JPY.  floor_price is a Python     *)
(* float (original_price * (1 - 0.12)); the inventory prices enumerated    *)
(* here are multiples of 25, for which that product is an integer and the  *)
(* double holds it exactly, so floor_price is an integer of the model.     *)
(* The roundings int(x * 0.97 / 1000) * 1000, int(x * 0.98 / 1000) * 1000  *)
(* and int(x * 1.02 / 1000) * 1000 are computed with integer division,     *)
(* which agrees with the double computation on the amounts used.           *)
(*                                                                         *)
(* The price calculator multiplies by INSURANCE_RATE = 0.025, so its       *)
(* breakdown is held in thousandths of a yen (Milli): every component of   *)
(* the model's breakdown is the Python value times 1000.                   *)
(*                                                                         *)
(* The chat layer (respond, _parse_intent, the sidebar and card buttons)   *)
(* holds a message as a tuple of characters, so that `w in text' is a      *)
(* substring test, and the history as the sequence of its roles.  The      *)
(* display rates of CURRENCIES are rationals (JPY 1, USD 1/155, PKR 20/11);*)
(* int(price * rate) and int(value / rate) are computed with integer       *)
(* division, which agrees with the double computation on the amounts used. *)
(* One step of the chat is one run of the script (render_ui); a run asked  *)
(* for by st.rerun() comes before any other.                               *)
(*                                                                         *)
(* The invoice chat (get_bot_response, utils.py) works on keys of the      *)
(* Streamlit session state: a key never assigned reads as None ("unset"),  *)
(* and a reply is held by its kind and, for the price reply, its total.    *)
(***************************************************************************)
EXTENDS Integers, Sequences, FiniteSets, TLC

VARIABLES negotiation_context, last_deal_context, invoice_to_render,
          last_call,
          calc_input, calc_status, calc_result,
          history, chat_started, currency,
          search_results, search_results_index, current_car_to_display,
          last_response,
          bot_state, bot_call,
          inventory_df, query_context, rerun_requested, button_action

vars == <<negotiation_context, last_deal_context, invoice_to_render,
          last_call, calc_input, calc_status, calc_result,
          history, chat_started, currency,
          search_results, search_results_index, current_car_to_display,
          last_response,
          bot_state, bot_call,
          inventory_df, query_context, rerun_requested, button_action>>

negVars == <<negotiation_context, last_deal_context, invoice_to_render, last_call>>

calcVars == <<calc_input, calc_status, calc_result>>

\* the search results and the card on display
searchVars == <<search_results, search_results_index, current_car_to_display>>

\* the session around the negotiation engine: the inventory, the chat, the
\* search, the request for another run of the script and the action a
\* sidebar button has left for the next run
chatVars ==
  <<inventory_df, history, chat_started, currency, searchVars, query_context,
    last_response, rerun_requested, button_action>>

\* the session state get_bot_response works on, and its last call
botVars == <<bot_state, bot_call>>

\* what nothing of the SalesAgent touches
otherVars == <<calcVars, botVars>>

-----------------------------------------------------------------------------
(* Bounds *)

\* cars of the inventory that a direct call of initiate_negotiation is given
NumCars == 4

MaxPriceSteps == 24

\* messages in history when a handler is called directly
MaxHistory == 6

\* messages in history in the chat
MaxChat == 7

-----------------------------------------------------------------------------
(* Program constants *)

\* NEGOTIATION_MAX_DISCOUNT = 0.12, as a percentage
NEGOTIATION_MAX_DISCOUNT == 12

DOMESTIC_TRANSPORT == 50000

FREIGHT_COST == 150000

\* INSURANCE_RATE = 0.025, as thousandths
INSURANCE_RATE == 25

\* unit of the calculator's breakdown: 1 yen = Milli thousandths
Milli == 1000

\* rounding unit of every quoted price
RoundingUnit == 1000

-----------------------------------------------------------------------------
(* Values *)

\* Python None (or a missing key) where a price is expected
NoPrice == -1

\* Python None where a car (a row of the inventory, a dict) is expected
NoCar ==
  [id |-> 0, price |-> 0, make |-> <<>>, model |-> <<>>, year |-> 0,
   color |-> <<>>]

\* Python None where a negotiation context (a dict) is expected
None ==
  [car |-> NoCar, original_price |-> 0, floor_price |-> 0, step |-> "none",
   last_agent_offer |-> NoPrice, final_price |-> NoPrice]

\* car_data of _generate_dummy_inventory, the sample inventory
CAR_DATA ==
  <<[make |-> <<"T", "o", "y", "o", "t", "a">>, model |-> <<"A", "q", "u", "a">>,
     year |-> 2018, price |-> 850000, color |-> <<"S", "i", "l", "v", "e", "r">>],
    [make |-> <<"T", "o", "y", "o", "t", "a">>, model |-> <<"P", "r", "i", "u", "s">>,
     year |-> 2019, price |-> 1200000, color |-> <<"W", "h", "i", "t", "e">>],
    [make |-> <<"H", "o", "n", "d", "a">>, model |-> <<"F", "i", "t">>,
     year |-> 2018, price |-> 800000, color |-> <<"B", "l", "u", "e">>]>>

\* rows of an inventory file, 'Inventory Agasta.csv', which _load_inventory
\* reads in place of the sample inventory when the file is there: any
\* numeric Price is kept, so a listing may be priced below the rounding unit
FILE_DATA ==
  <<[make |-> <<"T", "o", "y", "o", "t", "a">>, model |-> <<"A", "q", "u", "a">>,
     year |-> 2018, price |-> 1000000, color |-> <<"S", "i", "l", "v", "e", "r">>],
    [make |-> <<"T", "o", "y", "o", "t", "a">>, model |-> <<"P", "r", "i", "u", "s">>,
     year |-> 2019, price |-> 1000, color |-> <<"W", "h", "i", "t", "e">>],
    [make |-> <<"H", "o", "n", "d", "a">>, model |-> <<"F", "i", "t">>,
     year |-> 2018, price |-> 1500, color |-> <<"B", "l", "u", "e">>]>>

\* car_data * n: the list repeated n times
Repeated(car_data, n) ==
  [i \in 1..(Len(car_data) * n) |-> car_data[((i - 1) % Len(car_data)) + 1]]

\* the data frame of a list of rows as _load_inventory leaves it: row i
\* gets id i (VID0000 is id 1)
DataFrame(data) ==
  [i \in 1..Len(data) |->
     [id |-> i, price |-> data[i].price, make |-> data[i].make,
      model |-> data[i].model, year |-> data[i].year, color |-> data[i].color]]

\* pd.DataFrame(car_data * 50) with its ids: 150 rows
SampleRows == DataFrame(Repeated(CAR_DATA, 50))

\* inventory_df of the session an agent is built on: missing (a new
\* session), or put there beforehand with the rows of the sample inventory
\* or of an inventory file
InventoryStates == {"missing", "sample", "file"}

Rows(df) ==
  IF df = "sample" THEN SampleRows
  ELSE IF df = "file" THEN DataFrame(FILE_DATA)
  ELSE <<>>

\* the inventory rows in the order of the data frame
InventoryRows == Rows(inventory_df)

Inventory == { InventoryRows[i] : i \in 1..Len(InventoryRows) }

\* SalesAgent(session_state) returns: on a session without inventory_df
\* _initialize_state calls _reload_data, and _load_market_data raises
\* NameError (MARKET_DATA_FILE_PATH is not defined), so no agent exists
Constructed == inventory_df # "missing"

\* truth value of an optional price in a Python condition: None and 0 are false
Truthy(x) == x # NoPrice /\ x # 0

\* int(x / 1000) * 1000 for x = num / den >= 0
RoundDown(num, den) == (num \div (den * RoundingUnit)) * RoundingUnit

-----------------------------------------------------------------------------
(* SalesAgent: negotiation *)

FloorPrice(original_price) ==
  (original_price * (100 - NEGOTIATION_MAX_DISCOUNT)) \div 100

\* variant: the new session keeps the agent offer of the session it replaces
NewContext_CarryOver(car_data) ==
  [car |-> car_data, original_price |-> car_data.price,
   floor_price |-> FloorPrice(car_data.price), step |-> "initial",
   last_agent_offer |-> negotiation_context.last_agent_offer,
   final_price |-> NoPrice]

NewContext(car_data) ==
  [car |-> car_data, original_price |-> car_data.price,
   floor_price |-> FloorPrice(car_data.price), step |-> "initial",
   last_agent_offer |-> NoPrice, final_price |-> NoPrice]

OpeningDiscountPrice(price) == RoundDown(price * 97, 100)

\* variant: the opening discount is also recorded as final_price
DiscountUpdate_SetsFinal(ctx) ==
  [ctx EXCEPT !.last_agent_offer = OpeningDiscountPrice(ctx.original_price),
              !.final_price = OpeningDiscountPrice(ctx.original_price),
              !.step = "countered"]

DiscountUpdate(ctx) ==
  [ctx EXCEPT !.last_agent_offer = OpeningDiscountPrice(ctx.original_price),
              !.step = "countered"]

\* variant: rule 1 accepts only the exact figure quoted
MeetsLastOffer_ExactOnly(ctx, amount) ==
  Truthy(ctx.last_agent_offer) /\ amount = ctx.last_agent_offer

\* rule 1: a previous agent offer exists and the amount reaches it
MeetsLastOffer(ctx, amount) ==
  Truthy(ctx.last_agent_offer) /\ amount >= ctx.last_agent_offer

AcceptAtOffer(ctx, amount) ==
  [ctx EXCEPT !.final_price = amount, !.step = "accepted"]

\* variant: the asking-price branch records the amount offered
AcceptAtAskingPrice_AtAmount(ctx, amount) ==
  [ctx EXCEPT !.final_price = amount, !.step = "accepted"]

AcceptAtAskingPrice(ctx, amount) ==
  [ctx EXCEPT !.final_price = ctx.original_price, !.step = "accepted"]

CounterOffer(amount, price) ==
  LET mid    == RoundDown(amount + price, 2)
      capped == IF mid >= price THEN RoundDown(price * 98, 100) ELSE mid
  IN  IF capped <= amount THEN RoundDown(amount * 102, 100) ELSE capped

CounterUpdate(ctx, amount) ==
  LET counter_offer == CounterOffer(amount, ctx.original_price)
  IN  [ctx EXCEPT !.final_price = counter_offer, !.step = "countered",
                  !.last_agent_offer = counter_offer]

\* variant: the best-price reply only reports the floor price
BestPriceUpdate_ReportOnly(ctx, amount) == ctx

BestPriceUpdate(ctx, amount) ==
  [ctx EXCEPT !.final_price = ctx.floor_price, !.step = "countered",
              !.last_agent_offer = ctx.floor_price]

NegotiationUpdate(ctx, amount) ==
  IF MeetsLastOffer(ctx, amount) THEN AcceptAtOffer(ctx, amount)
  ELSE IF amount >= ctx.original_price THEN AcceptAtAskingPrice(ctx, amount)
  ELSE IF amount >= ctx.floor_price THEN CounterUpdate(ctx, amount)
  ELSE BestPriceUpdate(ctx, amount)

\* variant: the asking price is the fallback in every step
PriceToAccept_AnyStep(ctx) ==
  IF ~Truthy(ctx.final_price) THEN ctx.original_price ELSE ctx.final_price

PriceToAccept(ctx) ==
  IF ~Truthy(ctx.final_price) /\ ctx.step = "initial"
  THEN ctx.original_price
  ELSE ctx.final_price

\* the record copied to invoice_to_render and last_deal_context
Deal(ctx) == [ctx EXCEPT !.final_price = PriceToAccept(ctx)]

\* what the call found: the session and the deal records before it ran
Before ==
  [negotiation_context |-> negotiation_context,
   last_deal_context |-> last_deal_context,
   invoice_to_render |-> invoice_to_render]

Call(handler, amount) ==
  [handler |-> handler, amount |-> amount, before |-> Before]

\* amounts a buyer may offer on the session
OfferAmounts(ctx) ==
  { a \in { 0, ctx.floor_price, (ctx.original_price * 95) \div 100,
            ctx.original_price - 500, ctx.original_price,
            ctx.original_price + 1000, ctx.last_agent_offer } : a >= 0 }

\* add_message: h is the history the handler found, roles the roles of the
\* messages it adds, in order; history holds at most MaxChat messages
AddMessages(h, roles) ==
  /\ Len(h) + Len(roles) <= MaxChat
  /\ history' = h \o roles

Said == <<"assistant">>

\* no button_action, and nothing typed in the chat input
NoAction == <<>>

\* query_context = {}
EmptyQuery == [make |-> <<>>, model |-> <<>>, year |-> 0, color |-> <<>>]

\* variant: a session already in step 'accepted' survives a reject
RejectUpdate_KeepAccepted(ctx) == IF ctx.step = "accepted" THEN ctx ELSE None

\* the session after a reject
RejectUpdate(ctx) == None

\* _handle_show_next_deal on the results and index given; h is the history
\* so far, said the messages the caller has added to it
ShowNextDeal(h, said, results, idx) ==
  IF results = <<>> \/ idx >= Len(results)
  THEN /\ AddMessages(h, said \o Said)
       /\ current_car_to_display' = NoCar
       /\ search_results_index' = idx
  ELSE /\ AddMessages(h, said)
       /\ current_car_to_display' = results[idx + 1]
       /\ search_results_index' = idx + 1

\* the handlers, entered with history h, invoice_to_render inv and
\* query_context qc: respond has added the user's message to the history and
\* _parse_intent may have written to query_context, and render_ui may have
\* taken the invoice; a direct call enters with the three as they are

InitiateNegotiation(h, inv, qc, car_data) ==
  /\ current_car_to_display' = NoCar
  /\ negotiation_context' = NewContext(car_data)
  /\ AddMessages(h, Said)
  /\ last_call' = Call("initiate_negotiation", car_data.price)
  /\ invoice_to_render' = inv
  /\ query_context' = qc
  /\ UNCHANGED <<last_deal_context, search_results, search_results_index>>

DiscountInquiry(h, inv, qc) ==
  /\ negotiation_context' =
       IF negotiation_context = None THEN None
       ELSE DiscountUpdate(negotiation_context)
  /\ AddMessages(h, Said)
  /\ last_call' = Call("discount_inquiry", NoPrice)
  /\ invoice_to_render' = inv
  /\ query_context' = qc
  /\ UNCHANGED <<last_deal_context, searchVars>>

Negotiation(h, inv, qc, offer_amount_base) ==
  /\ negotiation_context' =
       IF negotiation_context = None THEN None
       ELSE NegotiationUpdate(negotiation_context, offer_amount_base)
  /\ AddMessages(h, IF negotiation_context = None THEN <<>> ELSE Said)
  /\ last_call' = Call("negotiate", offer_amount_base)
  /\ invoice_to_render' = inv
  /\ query_context' = qc
  /\ UNCHANGED <<last_deal_context, searchVars>>

AcceptOffer(h, inv, qc) ==
  /\ IF negotiation_context # None /\ Truthy(PriceToAccept(negotiation_context))
     THEN /\ invoice_to_render' = Deal(negotiation_context)
          /\ last_deal_context' = Deal(negotiation_context)
          /\ negotiation_context' = None
          /\ query_context' = EmptyQuery
     ELSE /\ invoice_to_render' = inv
          /\ query_context' = qc
          /\ UNCHANGED <<negotiation_context, last_deal_context>>
  /\ AddMessages(h, Said)
  /\ last_call' = Call("accept_offer", NoPrice)
  /\ UNCHANGED searchVars

RejectOffer(h, inv, qc) ==
  /\ negotiation_context' = RejectUpdate(negotiation_context)
  /\ ShowNextDeal(h, Said, search_results, search_results_index)
  /\ last_call' = Call("reject_offer", NoPrice)
  /\ invoice_to_render' = inv
  /\ query_context' = qc
  /\ UNCHANGED <<last_deal_context, search_results>>

RequestInvoice(h, inv, qc) ==
  /\ invoice_to_render' =
       IF last_deal_context # None THEN last_deal_context ELSE inv
  /\ AddMessages(h, IF last_deal_context # None THEN <<>> ELSE Said)
  /\ last_call' = Call("request_invoice", NoPrice)
  /\ query_context' = qc
  /\ UNCHANGED <<negotiation_context, last_deal_context, searchVars>>

\* the handlers called directly on an agent

\* what a handler leaves alone
callFrame ==
  <<inventory_df, chat_started, currency, last_response, rerun_requested,
    button_action, otherVars>>

\* SalesAgent(session_state) on a session without inventory_df: the defaults
\* are set, then _reload_data raises NameError out of _load_market_data
\* before inventory_df is assigned, so neither a handler nor the script gets
\* to run; the next attempt finds the same session
reload_data ==
  /\ ~Constructed
  /\ last_call' = Call("NameError", NoPrice)
  /\ UNCHANGED <<negotiation_context, last_deal_context, invoice_to_render,
                 history, searchVars, query_context, callFrame>>

initiate_negotiation(car_data) ==
  /\ Constructed
  /\ InitiateNegotiation(history, invoice_to_render, query_context, car_data)
  /\ Len(history') <= MaxHistory
  /\ UNCHANGED callFrame

handle_discount_inquiry ==
  /\ Constructed
  /\ DiscountInquiry(history, invoice_to_render, query_context)
  /\ Len(history') <= MaxHistory
  /\ UNCHANGED callFrame

handle_negotiation(offer_amount_base) ==
  /\ Constructed
  /\ Negotiation(history, invoice_to_render, query_context, offer_amount_base)
  /\ Len(history') <= MaxHistory
  /\ UNCHANGED callFrame

handle_accept_offer ==
  /\ Constructed
  /\ AcceptOffer(history, invoice_to_render, query_context)
  /\ Len(history') <= MaxHistory
  /\ UNCHANGED callFrame

handle_reject_offer ==
  /\ Constructed
  /\ RejectOffer(history, invoice_to_render, query_context)
  /\ Len(history') <= MaxHistory
  /\ UNCHANGED callFrame

handle_request_invoice ==
  /\ Constructed
  /\ RequestInvoice(history, invoice_to_render, query_context)
  /\ Len(history') <= MaxHistory
  /\ UNCHANGED callFrame

-----------------------------------------------------------------------------
(* SalesAgent: the chat *)

\* CURRENCIES: the rate of each display currency as numerator / denominator
\* (JPY 1, USD 1/155, PKR 1/0.55 = 20/11)
CURRENCIES ==
  [JPY |-> [num |-> 1, den |-> 1],
   USD |-> [num |-> 1, den |-> 155],
   PKR |-> [num |-> 20, den |-> 11]]

CurrencyNames == {"JPY", "USD", "PKR"}

\* _format_price: int(price_base * rate), the number displayed
FormatPrice(price_base, cur) ==
  (price_base * CURRENCIES[cur].num) \div CURRENCIES[cur].den

\* _parse_intent: int(val / rate), the amount of an offer typed as val
ParseAmount(val, cur) ==
  (val * CURRENCIES[cur].den) \div CURRENCIES[cur].num

\* str.lower on the letters of the messages
LowerCase ==
  ("A" :> "a") @@ ("B" :> "b") @@ ("C" :> "c") @@ ("D" :> "d") @@
  ("E" :> "e") @@ ("F" :> "f") @@ ("G" :> "g") @@ ("H" :> "h") @@
  ("I" :> "i") @@ ("J" :> "j") @@ ("K" :> "k") @@ ("L" :> "l") @@
  ("M" :> "m") @@ ("N" :> "n") @@ ("O" :> "o") @@ ("P" :> "p") @@
  ("Q" :> "q") @@ ("R" :> "r") @@ ("S" :> "s") @@ ("T" :> "t") @@
  ("U" :> "u") @@ ("V" :> "v") @@ ("W" :> "w") @@ ("X" :> "x") @@
  ("Y" :> "y") @@ ("Z" :> "z")

Lower(text) ==
  [i \in DOMAIN text |->
     IF text[i] \in DOMAIN LowerCase THEN LowerCase[text[i]] ELSE text[i]]

UpperCase ==
  ("a" :> "A") @@ ("b" :> "B") @@ ("c" :> "C") @@ ("d" :> "D") @@
  ("e" :> "E") @@ ("f" :> "F") @@ ("g" :> "G") @@ ("h" :> "H") @@
  ("i" :> "I") @@ ("j" :> "J") @@ ("k" :> "K") @@ ("l" :> "L") @@
  ("m" :> "M") @@ ("n" :> "N") @@ ("o" :> "O") @@ ("p" :> "P") @@
  ("q" :> "Q") @@ ("r" :> "R") @@ ("s" :> "S") @@ ("t" :> "T") @@
  ("u" :> "U") @@ ("v" :> "V") @@ ("w" :> "W") @@ ("x" :> "X") @@
  ("y" :> "Y") @@ ("z" :> "Z")

Letters == DOMAIN LowerCase \cup DOMAIN UpperCase

\* str.title: a letter that follows no letter is put in upper case, every
\* other letter in lower case
Title(text) ==
  [i \in DOMAIN text |->
     IF i = 1 \/ text[i - 1] \notin Letters
     THEN IF text[i] \in DOMAIN UpperCase THEN UpperCase[text[i]] ELSE text[i]
     ELSE IF text[i] \in DOMAIN LowerCase THEN LowerCase[text[i]] ELSE text[i]]

\* str.strip of blanks
Strip(text) ==
  LET kept == { i \in DOMAIN text : text[i] # " " }
  IN  IF kept = {} THEN <<>>
      ELSE SubSeq(text, CHOOSE i \in kept : \A j \in kept : i <= j,
                        CHOOSE i \in kept : \A j \in kept : i >= j)

\* the messages typed or sent by a button
Hello == <<"h", "e", "l", "l", "o">>

IAgree == <<"i", " ", "a", "g", "r", "e", "e">>

No == <<"n", "o">>

Discount == <<"d", "i", "s", "c", "o", "u", "n", "t">>

Offer950000 == <<"9", "5", "0", "0", "0", "0">>

Offer950k == <<"9", "5", "0", "k">>

ShowDeals == <<"s", "h", "o", "w", " ", "d", "e", "a", "l", "s">>

Invoice == <<"i", "n", "v", "o", "i", "c", "e">>

ContactSupport == <<"c", "o", "n", "t", "a", "c", "t", " ", "s", "u", "p", "p", "o", "r", "t">>

Thanks == <<"t", "h", "a", "n", "k", "s">>

Toyota == <<"t", "o", "y", "o", "t", "a">>

ToyotaAqua == <<"T", "o", "y", "o", "t", "a", " ", "A", "q", "u", "a">>

Honda2018 == <<"h", "o", "n", "d", "a", " ", "2", "0", "1", "8">>

Blue == <<"b", "l", "u", "e">>

\* the text the Pass (Next Car) button sends
NextCar == <<"n", "e", "x", "t", " ", "c", "a", "r">>

Messages ==
  {Hello, IAgree, No, Discount, Offer950000, Offer950k, ShowDeals, Invoice,
   ContactSupport, Thanks, Toyota, ToyotaAqua, Honda2018, Blue}

GreetingTexts == {<<"h", "e", "l", "l", "o">>, <<"h", "i">>, <<"h", "e", "y">>}

AcceptWords ==
  {<<"d", "e", "a", "l">>,
   <<"y", "e", "s">>,
   <<"o", "k">>,
   <<"i", " ", "a", "g", "r", "e", "e">>,
   <<"a", "c", "c", "e", "p", "t">>,
   <<"f", "i", "n", "e">>}

RejectWords ==
  {<<"n", "o">>,
   <<"p", "a", "s", "s">>,
   <<"a", "n", "o", "t", "h", "e", "r">>,
   <<"c", "a", "n", "c", "e", "l">>}

DiscountWords ==
  {<<"d", "i", "s", "c", "o", "u", "n", "t">>,
   <<"b", "e", "s", "t", " ", "p", "r", "i", "c", "e">>,
   <<"n", "e", "g", "o", "t", "i", "a", "t", "e">>}

InvoiceWords ==
  {<<"i", "n", "v", "o", "i", "c", "e">>,
   <<"b", "i", "l", "l">>,
   <<"r", "e", "c", "e", "i", "p", "t">>}

\* w in text
Contains(text, w) ==
  \E i \in 1..(Len(text) - Len(w) + 1) : SubSeq(text, i, i + Len(w) - 1) = w

ContainsAny(text, words) == \E w \in words : Contains(text, w)

DigitValue ==
  ("0" :> 0) @@ ("1" :> 1) @@ ("2" :> 2) @@ ("3" :> 3) @@ ("4" :> 4) @@
  ("5" :> 5) @@ ("6" :> 6) @@ ("7" :> 7) @@ ("8" :> 8) @@ ("9" :> 9)

Digits == DOMAIN DigitValue

HasNumber(text) == \E i \in 1..Len(text) : text[i] \in Digits

\* group 1 of (\d[\d,.]*): from the first digit, as far as digits, commas
\* and points go
NumberStart(text) ==
  CHOOSE i \in 1..Len(text) :
    text[i] \in Digits /\ \A k \in 1..(i - 1) : text[k] \notin Digits

NumberEnd(text) ==
  CHOOSE j \in NumberStart(text)..Len(text) :
    /\ \A k \in NumberStart(text)..j : text[k] \in Digits \cup {",", "."}
    /\ j = Len(text) \/ text[j + 1] \notin Digits \cup {",", "."}

RECURSIVE DecimalValue(_)
\* float(val_str) of a string of digits
DecimalValue(digits) ==
  IF digits = <<>> THEN 0
  ELSE 10 * DecimalValue(SubSeq(digits, 1, Len(digits) - 1))
         + DigitValue[digits[Len(digits)]]

\* group 2 of \s*(m|k|lakh|l|million)?: the first alternative that matches
\* after the blanks that follow the number
Suffix(text) ==
  LET rest == SubSeq(text, NumberEnd(text) + 1, Len(text))
      RECURSIVE SkipBlanks(_)
      SkipBlanks(t) == IF t # <<>> /\ t[1] = " " THEN SkipBlanks(Tail(t)) ELSE t
      after == SkipBlanks(rest)
  IN  IF after = <<>> THEN ""
      ELSE IF after[1] = "m" THEN "m"
      ELSE IF after[1] = "k" THEN "k"
      ELSE IF Len(after) >= 4 /\ SubSeq(after, 1, 4) = <<"l", "a", "k", "h">> THEN "lakh"
      ELSE IF after[1] = "l" THEN "l"
      ELSE ""

\* the value typed, with its suffix applied
TypedValue(text) ==
  LET run == SubSeq(text, NumberStart(text), NumberEnd(text))
      val == DecimalValue(SelectSeq(run, LAMBDA c : c # ","))
      suffix == Suffix(text)
  IN  IF val < 1000 /\ suffix \in {"m", "million"} THEN val * 1000000
      ELSE IF suffix = "k" THEN val * 1000
      ELSE IF suffix \in {"lakh", "l"} THEN val * 100000
      ELSE val

\* a character of \w
IsWordChar(c) == c \in Letters \cup Digits \cup {"_"}

\* \b(w)\b matches at position i of the text, for a word w
MatchesAt(text, w, i) ==
  /\ w # <<>>
  /\ i + Len(w) - 1 <= Len(text)
  /\ SubSeq(text, i, i + Len(w) - 1) = w
  /\ i = 1 \/ ~IsWordChar(text[i - 1])
  /\ i + Len(w) - 1 = Len(text) \/ ~IsWordChar(text[i + Len(w)])

\* the least of a set of positions
MinOf(places) == CHOOSE i \in places : \A j \in places : i <= j

\* the alternatives of r'\b(a1|a2|...)\b' that match at position i
Hit(text, alternatives, i) ==
  { k \in 1..Len(alternatives) : MatchesAt(text, alternatives[k], i) }

\* what re.search takes among the places where an alternative matches: the
\* leftmost place, and there the first alternative that matches
FirstHit(text, alternatives, places) ==
  IF places = {} THEN <<>>
  ELSE alternatives[MinOf(Hit(text, alternatives, MinOf(places)))]

\* group 1 of re.search(r'\b(a1|a2|...)\b', text); <<>> when there is no
\* match
FirstMatch(text, alternatives) ==
  FirstHit(text, alternatives,
           { i \in 1..Len(text) : Hit(text, alternatives, i) # {} })

\* the column of a data frame
Column(rows, name) == [i \in 1..Len(rows) |-> rows[i][name]]

\* the values at some places, in the order of the places
ValuesAt(values, places) ==
  [k \in 1..Cardinality(places) |->
     values[CHOOSE i \in places : Cardinality({ j \in places : j <= i }) = k]]

\* Series.unique: the values in the order of their first appearance, that
\* is, at the places where no earlier value is the same
Unique(values) ==
  ValuesAt(values,
           { i \in 1..Len(values) :
               \A j \in 1..(i - 1) : values[j] # values[i] })

\* inventory_df['make'].unique()
Makes(rows) == Unique(Column(rows, "make"))

\* inventory_df[inventory_df['make'] == make]['model'].unique()
ModelsOf(rows, make) ==
  Unique(Column(SelectSeq(rows, LAMBDA r : r.make = make), "model"))

\* the alternatives of makes_pattern: each make in lower case, with the
\* optional s tried first
MakeAlternatives(makes) ==
  [k \in 1..(2 * Len(makes)) |->
     IF k % 2 = 1 THEN Lower(makes[(k + 1) \div 2]) \o <<"s">>
     ELSE Lower(makes[k \div 2])]

\* str.replace('s', '')
RemoveS(text) == SelectSeq(text, LAMBDA c : c # "s")

\* int of group 1 of the leftmost match of r'\b(20\d{2})\b'; 0 when there
\* is none
YearAt(text, places) ==
  IF places = {} THEN 0
  ELSE DecimalValue(SubSeq(text, MinOf(places), MinOf(places) + 3))

\* int(re.search(r'\b(20\d{2})\b', text).group(1)), or 0 for None
YearOf(text) ==
  YearAt(text, { i \in 1..(Len(text) - 3) :
                   /\ text[i] = "2" /\ text[i + 1] = "0"
                   /\ text[i + 2] \in Digits /\ text[i + 3] \in Digits
                   /\ i = 1 \/ ~IsWordChar(text[i - 1])
                   /\ i + 3 = Len(text) \/ ~IsWordChar(text[i + 4]) })

ColorWords ==
  <<<<"w", "h", "i", "t", "e">>, <<"b", "l", "a", "c", "k">>, <<"s", "i", "l", "v", "e", "r">>, <<"b", "l", "u", "e">>, <<"r", "e", "d">>, <<"g", "r", "e", "y">>, <<"o", "r", "a", "n", "g", "e">>>>

\* make: the make matched, without its s and in title case, or else the one
\* stored in query_context
MakeFrom(make_match, stored) ==
  IF make_match # <<>> THEN Title(RemoveS(make_match)) ELSE stored

\* the words of a list in lower case
LowerAll(words) == [k \in 1..Len(words) |-> Lower(words[k])]

\* model: looked for among the models of the make, when there is a make
ModelFrom(text, rows, make) ==
  IF make = <<>> THEN <<>>
  ELSE Title(FirstMatch(text, LowerAll(ModelsOf(rows, make))))

\* model, year and colour, given the make
QueryOfMake(text, rows, make) ==
  [make |-> make, model |-> ModelFrom(text, rows, make),
   year |-> YearOf(text), color |-> Title(FirstMatch(text, ColorWords))]

\* make, model, year and colour as the end of _parse_intent finds them; a
\* make the text does not name is taken from query_context
VehicleQuery(text, qc, rows) ==
  QueryOfMake(text, rows,
              MakeFrom(FirstMatch(text, MakeAlternatives(Makes(rows))),
                       qc.make))

\* query_context after the keys found have been written to it
UpdatedQuery(qc, q) ==
  [make |-> IF q.make # <<>> THEN q.make ELSE qc.make,
   model |-> IF q.model # <<>> THEN q.model ELSE qc.model,
   year |-> IF q.year # 0 THEN q.year ELSE qc.year,
   color |-> IF q.color # <<>> THEN q.color ELSE qc.color]

Parsed(intent, amount, qc) ==
  [intent |-> intent, amount |-> amount, query_context |-> qc]

\* lines 164-170: a search when anything was found, with query_context
\* updated, and unknown otherwise
SearchOrUnknown(qc, q) ==
  IF q.make # <<>> \/ q.model # <<>> \/ q.year # 0 \/ q.color # <<>>
  THEN Parsed("search_vehicle", NoPrice, UpdatedQuery(qc, q))
  ELSE Parsed("unknown", NoPrice, qc)

\* _parse_intent from line 138 on, text being user_input.lower().strip()
ParseText(text, ctx, cur, qc, rows) ==
  IF text \in GreetingTexts THEN Parsed("greeting", NoPrice, qc)
  ELSE IF ctx # None /\ ContainsAny(text, AcceptWords)
    THEN Parsed("accept_offer", NoPrice, qc)
  ELSE IF ctx # None /\ ContainsAny(text, RejectWords)
    THEN Parsed("reject_offer", NoPrice, qc)
  ELSE IF ctx # None /\ ContainsAny(text, DiscountWords)
    THEN Parsed("discount_inquiry", NoPrice, qc)
  ELSE IF ctx # None /\ HasNumber(text)
    THEN Parsed("negotiate", ParseAmount(TypedValue(text), cur), qc)
  ELSE IF ContainsAny(text, InvoiceWords)
    THEN Parsed("request_invoice", NoPrice, qc)
  ELSE IF text = ShowDeals THEN Parsed("show_deals", NoPrice, qc)
  ELSE IF text = ContactSupport THEN Parsed("contact_support", NoPrice, qc)
  ELSE SearchOrUnknown(qc, VehicleQuery(text, qc, rows))

\* _parse_intent: the intent, the amount of a numeric offer, and
\* query_context as it leaves it
ParseIntent(user_input, ctx, cur, qc, rows) ==
  ParseText(Strip(Lower(user_input)), ctx, cur, qc, rows)

\* the budget slider: its default and its full range
Budgets == {<<1500000, 5000000>>, <<500000, 15000000>>}

\* filters['year'] as _initialize_state sets it
YearRange == <<2018, 2024>>

\* the rows _handle_show_deals keeps: price within the budget and year
\* within the year filter (the other filters are left open)
Matching(budget) ==
  SelectSeq(InventoryRows,
            LAMBDA r : /\ budget[1] <= r.price /\ r.price <= budget[2]
                       /\ YearRange[1] <= r.year /\ r.year <= YearRange[2])

ShowDealsHandler(h, inv, budget) ==
  /\ negotiation_context' = None
  /\ query_context' = EmptyQuery
  /\ IF Matching(budget) = <<>>
     THEN AddMessages(h, Said) /\ UNCHANGED searchVars
     ELSE /\ search_results' = Matching(budget)
          /\ ShowNextDeal(h, Said, Matching(budget), 0)
  /\ last_call' = Call("show_deals", NoPrice)
  /\ invoice_to_render' = inv
  /\ UNCHANGED last_deal_context

\* the rows _handle_search_vehicle keeps
Found(params) ==
  SelectSeq(InventoryRows,
            LAMBDA r : /\ params.make = <<>> \/ r.make = params.make
                       /\ params.model = <<>> \/ r.model = params.model
                       /\ params.year = 0 \/ r.year = params.year
                       /\ params.color = <<>> \/ r.color = params.color)

\* _handle_search_vehicle(params), params being query_context
SearchVehicle(h, inv, params) ==
  /\ negotiation_context' = None
  /\ query_context' = params
  /\ IF /\ params.make # <<>> /\ params.model = <<>>
        /\ params.year = 0 /\ params.color = <<>>
     THEN AddMessages(h, Said \o Said) /\ UNCHANGED searchVars
     ELSE IF Found(params) = <<>>
     THEN AddMessages(h, Said) /\ UNCHANGED searchVars
     ELSE /\ search_results' = Found(params)
          /\ ShowNextDeal(h, Said, Found(params), 0)
  /\ last_call' = Call("search_vehicle", NoPrice)
  /\ invoice_to_render' = inv
  /\ UNCHANGED last_deal_context

\* a reply that no handler of the negotiation gives: greeting, contact
\* support and the fallback
PlainReply(h, inv, qc, intent) ==
  /\ AddMessages(h, Said)
  /\ last_call' = Call(intent, NoPrice)
  /\ invoice_to_render' = inv
  /\ query_context' = qc
  /\ UNCHANGED <<negotiation_context, last_deal_context, searchVars>>

\* respond calls handler(params) for 'negotiate': _handle_negotiation gets
\* the dict {"amount": n} as offer_amount_base, and on an active session its
\* first comparison of the dict with a price raises TypeError before anything
\* is changed
NegotiationWithParams(h, inv, qc, amount) ==
  /\ AddMessages(h, <<>>)
  /\ last_call' = Call("negotiate_params", amount)
  /\ invoice_to_render' = inv
  /\ query_context' = qc
  /\ UNCHANGED <<negotiation_context, last_deal_context, searchVars>>

NegotiationRaises(ctx) == ctx # None

\* what a call of respond did; quoted_in is the currency of the latest call
\* that answered a discount inquiry, whose message shows the quote by
\* _format_price in the currency the session had then
Response(text, parsed, cur) ==
  [user_input |-> text, intent |-> parsed.intent, amount |-> parsed.amount,
   raised |-> parsed.intent = "negotiate" /\ NegotiationRaises(negotiation_context),
   active |-> negotiation_context # None, history_len |-> Len(history),
   quoted_in |-> IF parsed.intent = "discount_inquiry" THEN cur
                 ELSE last_response.quoted_in]

\* lines 174-183 of respond: the user's message is added and the handler of
\* the intent is called with the parameters _parse_intent returned
Dispatch(user_input, inv, parsed, h, cur) ==
  /\ last_response' = Response(user_input, parsed, cur)
  /\ CASE parsed.intent = "accept_offer" ->
            AcceptOffer(h, inv, parsed.query_context)
       [] parsed.intent = "reject_offer" ->
            RejectOffer(h, inv, parsed.query_context)
       [] parsed.intent = "discount_inquiry" ->
            DiscountInquiry(h, inv, parsed.query_context)
       [] parsed.intent = "negotiate" ->
            NegotiationWithParams(h, inv, parsed.query_context, parsed.amount)
       [] parsed.intent = "request_invoice" ->
            RequestInvoice(h, inv, parsed.query_context)
       [] parsed.intent = "show_deals" ->
            \E budget \in Budgets : ShowDealsHandler(h, inv, budget)
       [] parsed.intent = "search_vehicle" ->
            SearchVehicle(h, inv, parsed.query_context)
       [] OTHER -> PlainReply(h, inv, parsed.query_context, parsed.intent)

\* respond(user_input), entered with invoice_to_render inv and currency cur;
\* the budget that _handle_show_deals reads is the value of the budget slider
\* in user_profile.  The caller says what becomes of currency,
\* rerun_requested and button_action.
respond(user_input, inv, cur) ==
  /\ Len(history) < MaxChat
  /\ Dispatch(user_input, inv,
              ParseIntent(user_input, negotiation_context, cur, query_context,
                          InventoryRows),
              Append(history, "user"), cur)
  /\ UNCHANGED <<inventory_df, chat_started, otherVars>>

\* the number of characters of f"{n:,}", n >= 0: its digits and a comma
\* before every group of three
FigureLen(n) ==
  CHOOSE len \in {1, 2, 3, 5, 6, 7, 9, 10, 11, 13} :
    LET digits == len - len \div 4
    IN  n < 10 ^ digits /\ (digits = 1 \/ n >= 10 ^ (digits - 1))

\* the characters of f"{n:,}" of length len
FigureOf(n, len) ==
  [i \in 1..len |->
     IF (len - i) % 4 = 3 THEN ","
     ELSE CHOOSE c \in Digits :
            DigitValue[c] = (n \div 10 ^ ((len - i) - (len - i) \div 4)) % 10]

\* f"{n:,}", the figure _format_price displays after the currency
Figure(n) == FigureOf(n, FigureLen(n))

\* the figure of the quote on display: the agent's last offer as the answer
\* to the discount inquiry showed it
QuotedFigure ==
  Figure(FormatPrice(negotiation_context.last_agent_offer,
                     last_response.quoted_in))

\* what the buyer of the round trip types: a search, a discount inquiry,
\* and, once a quote is on display, its figure
QuoteMessages ==
  {ToyotaAqua, Honda2018, Discount} \cup
  (IF negotiation_context # None
      /\ negotiation_context.last_agent_offer # NoPrice
   THEN {QuotedFigure} ELSE {})

\* One run of the script (render_ui), by the widget that caused it.  Every
\* run builds the agent first.  A handler that ends with st.rerun() asks for
\* another run, which comes before any further input is read.

\* lines 306-308: with the chat started the waiting invoice is taken
Popped == IF chat_started THEN None ELSE invoice_to_render

\* lines 294-318, the run from the chat history on: cur is the currency the
\* sidebar has left, typed what st.chat_input returns (NoAction when nothing
\* was typed) and name the widget that caused the run.  A respond that
\* raises ends the run before st.rerun().
Script(cur, typed, name) ==
  LET user_action == IF button_action # NoAction THEN button_action ELSE typed
  IN  IF chat_started /\ user_action # NoAction
      THEN /\ respond(user_action, Popped, cur)
           /\ button_action' = NoAction
           /\ rerun_requested' = ~last_response'.raised
      ELSE /\ invoice_to_render' = Popped
           /\ rerun_requested' = FALSE
           /\ last_call' = Call(name, NoPrice)
           /\ UNCHANGED <<negotiation_context, last_deal_context,
                          inventory_df, history, chat_started, searchVars,
                          query_context, last_response, button_action,
                          otherVars>>

\* the Start Chat button
start_chat ==
  /\ Constructed
  /\ ~rerun_requested
  /\ ~chat_started
  /\ chat_started' = TRUE
  /\ history' = Said
  /\ query_context' = EmptyQuery
  /\ rerun_requested' = TRUE
  /\ last_call' = Call("start_chat", NoPrice)
  /\ UNCHANGED <<negotiation_context, last_deal_context, invoice_to_render,
                 inventory_df, currency, searchVars, last_response,
                 button_action, otherVars>>

\* the currency select box; the run goes on to the end of render_ui
select_currency(cur) ==
  /\ Constructed
  /\ ~rerun_requested
  /\ currency' = cur
  /\ Script(cur, NoAction, "select_currency")

\* the Apply Filters & Show Deals button: the run ends there, leaving
\* 'show deals' for the next one
apply_filters ==
  /\ Constructed
  /\ ~rerun_requested
  /\ button_action' = ShowDeals
  /\ rerun_requested' = TRUE
  /\ last_call' = Call("apply_filters", NoPrice)
  /\ UNCHANGED <<negotiation_context, last_deal_context, invoice_to_render,
                 inventory_df, history, chat_started, currency, searchVars,
                 query_context, last_response, otherVars>>

\* a message typed in the chat input
chat_input(user_input) ==
  /\ Constructed
  /\ ~rerun_requested
  /\ chat_started
  /\ Script(currency, user_input, "chat_input")
  /\ UNCHANGED currency

\* the Like & Make Offer button of the card on display; the card comes
\* before the invoice in the run
click_make_offer ==
  /\ Constructed
  /\ ~rerun_requested
  /\ chat_started
  /\ current_car_to_display # NoCar
  /\ InitiateNegotiation(history, invoice_to_render, query_context,
                         current_car_to_display)
  /\ rerun_requested' = TRUE
  /\ UNCHANGED <<inventory_df, chat_started, currency, last_response,
                 button_action, otherVars>>

\* the Pass (Next Car) button of the card on display
click_pass ==
  /\ Constructed
  /\ ~rerun_requested
  /\ chat_started
  /\ current_car_to_display # NoCar
  /\ respond(NextCar, invoice_to_render, currency)
  /\ rerun_requested' = ~last_response'.raised
  /\ UNCHANGED <<currency, button_action>>

\* the run that st.rerun() asked for: no widget has a new value
rerun ==
  /\ Constructed
  /\ rerun_requested
  /\ Script(currency, NoAction, "rerun")
  /\ UNCHANGED currency

-----------------------------------------------------------------------------
(* Price calculator *)

Options == {"FOB", "C&F", "CIF", "NONE"}

\* base prices given to the calculator: the two non-positive ones and a grid
BasePrices == {-100, 0} \cup { k * 50000 : k \in 1..MaxPriceSteps }

NoBreakdown ==
  [base_price |-> 0, domestic_transport |-> 0, freight_cost |-> 0,
   insurance |-> 0, total_price |-> 0]

\* variant: insurance on the base price alone
Insurance_OnBaseOnly(base_price, freight_cost) == base_price * INSURANCE_RATE

Insurance(base_price, freight_cost) ==
  (base_price + freight_cost) * INSURANCE_RATE

\* variant: the total leaves the insurance out
TotalPrice_NoInsurance(b) == b.base_price + b.domestic_transport + b.freight_cost

TotalPrice(b) ==
  b.base_price + b.domestic_transport + b.freight_cost + b.insurance

calculate_total_price(base_price, option) ==
  LET domestic_transport ==
        IF option \in {"FOB", "C&F", "CIF"} THEN DOMESTIC_TRANSPORT ELSE 0
      freight_cost ==
        IF option \in {"C&F", "CIF"} THEN FREIGHT_COST ELSE 0
      insurance ==
        IF option = "CIF" THEN Insurance(base_price, freight_cost) ELSE 0
      breakdown ==
        [base_price |-> base_price * Milli,
         domestic_transport |-> domestic_transport * Milli,
         freight_cost |-> freight_cost * Milli,
         insurance |-> insurance]
  IN  [base_price |-> breakdown.base_price,
       domestic_transport |-> breakdown.domestic_transport,
       freight_cost |-> breakdown.freight_cost,
       insurance |-> breakdown.insurance,
       total_price |-> TotalPrice(breakdown)]

Calculate ==
  /\ calc_status = "pending"
  /\ calc_result' = calculate_total_price(calc_input.base_price, calc_input.option)
  /\ calc_status' = "returned"
  /\ UNCHANGED <<calc_input, negVars, chatVars, botVars>>

-----------------------------------------------------------------------------
(* Invoice chat (get_bot_response, utils.py) *)

ResetWords ==
  {<<"a", "n", "o", "t", "h", "e", "r", " ", "c", "a", "r">>,
   <<"s", "t", "a", "r", "t", " ", "o", "v", "e", "r">>,
   <<"c", "h", "a", "n", "g", "e", " ", "c", "a", "r">>,
   <<"g", "o", " ", "b", "a", "c", "k">>}

ConfirmWords ==
  {<<"y", "e", "s">>,
   <<"p", "r", "o", "c", "e", "e", "d">>,
   <<"c", "o", "n", "f", "i", "r", "m">>,
   <<"i", " ", "a", "g", "r", "e", "e">>}

\* the phrases that set invoice_request_pending, as the code spells them
PendingPhrases ==
  {<<"s", "h", "a", "l", "l", " ", "I", " ", "i", "s", "s", "u", "e">>,
   <<"a", "r", "e", " ", "y", "o", "u", " ", "r", "e", "a", "d", "y", " ",
     "t", "o", " ", "p", "r", "o", "c", "e", "e", "d">>}

PaymentWords ==
  {<<"p", "a", "y", "m", "e", "n", "t">>,
   <<"p", "a", "y">>,
   <<"b", "a", "n", "k">>}

PriceWords ==
  {<<"p", "r", "i", "c", "e">>,
   <<"d", "i", "s", "c", "o", "u", "n", "t">>,
   <<"n", "e", "g", "o", "t", "i", "a", "t", "e">>,
   <<"o", "f", "f", "e", "r">>}

\* messages typed in the invoice chat
BotMessages ==
  {<<"i", "n", "v", "o", "i", "c", "e">>,
   <<"Y", "e", "s">>,
   <<"i", " ", "a", "g", "r", "e", "e">>,
   <<"c", "o", "n", "f", "i", "r", "m">>,
   <<"p", "r", "o", "c", "e", "e", "d">>,
   <<"s", "h", "a", "l", "l", " ", "I", " ", "i", "s", "s", "u", "e">>,
   <<"a", "r", "e", " ", "y", "o", "u", " ", "r", "e", "a", "d", "y", " ",
     "t", "o", " ", "p", "r", "o", "c", "e", "e", "d">>,
   <<"s", "t", "a", "r", "t", " ", "o", "v", "e", "r">>,
   <<"p", "a", "y">>,
   <<"p", "r", "i", "c", "e">>,
   <<"t", "h", "a", "n", "k", "s">>}

\* car_in_chat = {}
NoCarInChat == [present |-> FALSE, price |-> 0]

\* car_details.get('price', 0)
CarPrice(car_details) == IF car_details.present THEN car_details.price ELSE 0

\* a session_state key that was never assigned reads as None
Unset == "unset"

NoReply == [kind |-> "none", total |-> 0]

Reply(kind) == [kind |-> kind, total |-> 0]

\* int(price_breakdown['total_price'])
PriceReply(car_details, shipping_option) ==
  [kind |-> "price",
   total |-> calculate_total_price(CarPrice(car_details),
                                   shipping_option).total_price \div Milli]

\* lines 109-110: the chat is reset
ResetChat(s) ==
  [s EXCEPT !.offer_placed = FALSE, !.chat_messages = <<>>,
            !.car_in_chat = NoCarInChat]

\* lines 112-128: the session state left and the reply returned; customer_info
\* and car_details were read before any reset
Answer(lowered_input, s, customer_info, car_details) ==
  IF customer_info.country = ""
  THEN [state |-> s, reply |-> Reply("ask_country")]
  ELSE IF customer_info.port_of_discharge = ""
  THEN [state |-> s, reply |-> Reply("ask_port")]
  ELSE IF Contains(lowered_input, <<"i", "n", "v", "o", "i", "c", "e">>)
  THEN [state |-> s, reply |-> Reply("ready_to_proceed")]
  ELSE IF /\ ContainsAny(lowered_input, ConfirmWords)
          /\ s.invoice_request_pending = "true"
  THEN [state |-> [s EXCEPT !.generate_invoice_request = "true"],
        reply |-> Reply("generating_invoice")]
  ELSE LET pending == IF ContainsAny(lowered_input, PendingPhrases)
                      THEN "true" ELSE "false"
           t == [s EXCEPT !.invoice_request_pending = pending]
       IN  IF ContainsAny(lowered_input, PaymentWords)
           THEN [state |-> t, reply |-> Reply("payment")]
           ELSE IF ContainsAny(lowered_input, PriceWords)
           THEN [state |-> t,
                 reply |-> PriceReply(car_details, s.shipping_option)]
           ELSE [state |-> t, reply |-> Reply("forwarded")]

BotCall(user_input, reply) ==
  [user_input |-> user_input, reply |-> reply, before |-> bot_state,
   previous_reply |-> bot_call.reply]

\* st.rerun() ends the script run under the Streamlit runtime and returns
\* when there is none: after a reset the call either stops there or goes on
get_bot_response(user_input) ==
  LET lowered_input == Lower(user_input)
      customer_info == bot_state.customer_info
      car_details == bot_state.car_in_chat
  IN  /\ \/ /\ ContainsAny(lowered_input, ResetWords)
            /\ bot_state' = ResetChat(bot_state)
            /\ bot_call' = BotCall(user_input, Reply("rerun"))
         \/ LET s == IF ContainsAny(lowered_input, ResetWords)
                     THEN ResetChat(bot_state) ELSE bot_state
                a == Answer(lowered_input, s, customer_info, car_details)
            IN  /\ bot_state' = a.state
                /\ bot_call' = BotCall(user_input, a.reply)
      /\ UNCHANGED <<negVars, chatVars, calcVars>>

-----------------------------------------------------------------------------
(* Specifications *)

InitSession ==
  /\ negotiation_context = None
  /\ last_deal_context = None
  /\ invoice_to_render = None
  /\ last_call = [handler |-> "none", amount |-> NoPrice,
                  before |-> [negotiation_context |-> None,
                              last_deal_context |-> None,
                              invoice_to_render |-> None]]

NoResponse ==
  [user_input |-> <<>>, intent |-> "none", amount |-> NoPrice,
   raised |-> FALSE, active |-> FALSE, history_len |-> 0, quoted_in |-> "JPY"]

\* the defaults of _initialize_state
InitChat ==
  /\ history = <<>>
  /\ chat_started = FALSE
  /\ currency = "JPY"
  /\ query_context = EmptyQuery
  /\ search_results = <<>>
  /\ search_results_index = 0
  /\ current_car_to_display = NoCar
  /\ last_response = NoResponse
  /\ rerun_requested = FALSE
  /\ button_action = NoAction

InitCalcIdle ==
  /\ calc_input = [base_price |-> 0, option |-> "NONE"]
  /\ calc_status = "pending"
  /\ calc_result = NoBreakdown

\* no call of get_bot_response yet
InitBotCall ==
  bot_call = [user_input |-> <<>>, reply |-> NoReply, before |-> bot_state,
              previous_reply |-> NoReply]

InitBotIdle ==
  /\ bot_state = [customer_info |-> [country |-> "", port_of_discharge |-> ""],
                  car_in_chat |-> NoCarInChat, shipping_option |-> "FOB",
                  offer_placed |-> FALSE, chat_messages |-> <<>>,
                  invoice_request_pending |-> Unset,
                  generate_invoice_request |-> Unset]
  /\ InitBotCall

\* a session as it is first seen: inventory_df is not in it (and no agent
\* can be built), or the session was given the sample inventory or the rows
\* of an inventory file
Init ==
  /\ inventory_df \in InventoryStates
  /\ InitSession
  /\ InitChat
  /\ InitCalcIdle
  /\ InitBotIdle

\* the handlers of an agent, called directly; initiate_negotiation is given
\* one of the first NumCars cars of the inventory
Next ==
  \/ reload_data
  \/ \E car_data \in { row \in Inventory : row.id <= NumCars } :
       initiate_negotiation(car_data)
  \/ handle_discount_inquiry
  \/ \E amount \in OfferAmounts(negotiation_context) : handle_negotiation(amount)
  \/ handle_accept_offer
  \/ handle_reject_offer
  \/ handle_request_invoice

Spec == Init /\ [][Next]_vars

InitCalc ==
  /\ inventory_df = "sample"
  /\ InitSession
  /\ InitChat
  /\ InitBotIdle
  /\ calc_input \in [base_price : BasePrices, option : Options]
  /\ calc_status = "pending"
  /\ calc_result = NoBreakdown

NextCalc == Calculate

SpecCalc == InitCalc /\ [][NextCalc]_vars

\* the chat as the user interface drives it, one run of the script a step
NextChat ==
  \/ reload_data
  \/ start_chat
  \/ \E cur \in CurrencyNames : select_currency(cur)
  \/ apply_filters
  \/ \E user_input \in Messages : chat_input(user_input)
  \/ click_make_offer
  \/ click_pass
  \/ rerun

SpecChat == Init /\ [][NextChat]_vars

\* the display-currency round trip in the chat: a car is searched for, an
\* offer is started on its card, a discount is asked for, and the figure of
\* the quote is typed back; the currency select box may cause a run of the
\* script at any time
InitQuote ==
  /\ inventory_df \in {"sample", "file"}
  /\ InitSession
  /\ InitChat
  /\ InitCalcIdle
  /\ InitBotIdle

NextQuote ==
  \/ start_chat
  \/ rerun
  \/ \E cur \in CurrencyNames : select_currency(cur)
  \/ \E user_input \in QuoteMessages : chat_input(user_input)
  \/ click_make_offer

SpecQuote == InitQuote /\ [][NextQuote]_vars

\* the invoice chat: the page that calls get_bot_response has filled in the
\* destination, the car and the shipping option
InitBot ==
  /\ inventory_df = "sample"
  /\ InitSession
  /\ InitChat
  /\ InitCalcIdle
  /\ bot_state \in
       [customer_info : [country : {"", "Pakistan"},
                         port_of_discharge : {"", "Karachi"}],
        car_in_chat : {NoCarInChat, [present |-> TRUE, price |-> 1000000]},
        shipping_option : {"FOB", "CIF"},
        offer_placed : {TRUE},
        chat_messages : {<<"user">>},
        invoice_request_pending : {Unset},
        generate_invoice_request : {Unset}]
  /\ InitBotCall

NextBot == \E user_input \in BotMessages : get_bot_response(user_input)

SpecBot == InitBot /\ [][NextBot]_vars

-----------------------------------------------------------------------------
(* Properties *)

\* the session the last call found
found == last_call.before.negotiation_context

\* the last call was a numeric offer on an active session
Offered == last_call.handler = "negotiate" /\ found # None

\* the last call was an accept on an active session
AcceptCalled == last_call.handler = "accept_offer" /\ found # None

DealsUnchanged ==
  /\ last_deal_context = last_call.before.last_deal_context
  /\ invoice_to_render = last_call.before.invoice_to_render

\* C1: the final_price of the session, whenever it is set, and the
\* final_price of the recorded deal are never below floor_price.
C1_FloorRespected ==
  /\ (negotiation_context # None /\ negotiation_context.final_price # NoPrice)
       => negotiation_context.final_price >= negotiation_context.floor_price
  /\ last_deal_context # None
       => last_deal_context.final_price >= last_deal_context.floor_price

\* C2: an offer with floor_price <= amount < original_price that rule 1 does
\* not accept is answered by a counter-offer, stored as last_agent_offer and
\* final_price, strictly greater than the amount and strictly less than
\* original_price.
C2_CounterStrictlyBetween ==
  (/\ Offered
   /\ ~MeetsLastOffer(found, last_call.amount)
   /\ found.floor_price <= last_call.amount
   /\ last_call.amount < found.original_price)
  => /\ negotiation_context.last_agent_offer = negotiation_context.final_price
     /\ negotiation_context.final_price > last_call.amount
     /\ negotiation_context.final_price < found.original_price

\* an offer below the floor that rule 1 does not accept
BelowFloorOffered ==
  /\ Offered
  /\ ~MeetsLastOffer(found, last_call.amount)
  /\ last_call.amount < found.floor_price

\* C3 (as claimed): an offer below floor_price that rule 1 does not accept
\* leaves final_price and step as they were.
C3_RejectLeavesSession ==
  BelowFloorOffered
  => /\ negotiation_context.final_price = found.final_price
     /\ negotiation_context.step = found.step

\* C3 (amended): an offer below floor_price that rule 1 does not accept is
\* answered with the floor price as a counter-offer: final_price and
\* last_agent_offer become floor_price and step becomes 'countered'; the
\* vehicle, original_price and floor_price are unchanged.
C3_BelowFloorCountersAtFloor ==
  BelowFloorOffered
  => negotiation_context =
       [found EXCEPT !.final_price = found.floor_price,
                     !.last_agent_offer = found.floor_price,
                     !.step = "countered"]

C3_Witness ==
  /\ BelowFloorOffered
  /\ found.step = "initial"
  /\ found.final_price = NoPrice
  /\ found.original_price = 850000
  /\ negotiation_context.final_price = 748000
  /\ negotiation_context.step = "countered"

\* C4 (as claimed): accept on a session whose final_price is not set records
\* no deal; negotiation_context, last_deal_context and invoice_to_render are
\* unchanged.
C4_AcceptWithoutPriceNoDeal ==
  (AcceptCalled /\ found.final_price = NoPrice)
  => negotiation_context = found /\ DealsUnchanged

\* C4 (amended): accept on a session whose final_price is not set records no
\* deal when step is not 'initial' (the session was only given an opening
\* discount): the three are unchanged.  On a fresh session (step 'initial')
\* accept confirms the deal at original_price: the session is cleared and
\* last_deal_context and invoice_to_render carry final_price = original_price.
C4_AcceptWithoutPrice ==
  (AcceptCalled /\ found.final_price = NoPrice)
  => IF found.step = "initial"
     THEN /\ negotiation_context = None
          /\ last_deal_context = [found EXCEPT !.final_price = found.original_price]
          /\ invoice_to_render = last_deal_context
     ELSE negotiation_context = found /\ DealsUnchanged

C4_Witness ==
  /\ AcceptCalled
  /\ found.final_price = NoPrice
  /\ found.step = "countered"
  /\ found.last_agent_offer = 824000
  /\ negotiation_context = found
  /\ DealsUnchanged

\* C5: once step = 'accepted', no later numeric offer or discount inquiry
\* changes step or final_price.
C5_AcceptedIsTerminal ==
  (/\ last_call.handler \in {"negotiate", "discount_inquiry"}
   /\ found # None
   /\ found.step = "accepted")
  => /\ negotiation_context.step = "accepted"
     /\ negotiation_context.final_price = found.final_price

\* C6: when the session holds a last_agent_offer X, a numeric offer with
\* amount >= X moves it to step 'accepted' with final_price = amount.
C6_MeetingLastOfferAccepts ==
  (/\ Offered
   /\ found.last_agent_offer # NoPrice
   /\ last_call.amount >= found.last_agent_offer)
  => /\ negotiation_context.step = "accepted"
     /\ negotiation_context.final_price = last_call.amount

\* C7: with no previous agent offer, a numeric offer with
\* amount >= original_price moves the session to step 'accepted' with
\* final_price = original_price and leaves last_agent_offer unset.
C7_AskingPriceAccepted ==
  (/\ Offered
   /\ found.last_agent_offer = NoPrice
   /\ last_call.amount >= found.original_price)
  => negotiation_context =
       [found EXCEPT !.step = "accepted", !.final_price = found.original_price]

C7_Witness ==
  /\ Offered
  /\ found.last_agent_offer = NoPrice
  /\ last_call.amount > found.original_price
  /\ negotiation_context.step = "accepted"
  /\ negotiation_context.final_price = found.original_price
  /\ negotiation_context.last_agent_offer = NoPrice

\* the calculator returned for a positive base price and one of the incoterms
Returned(option) ==
  /\ calc_status = "returned"
  /\ calc_input.base_price > 0
  /\ calc_input.option = option

\* C8: for FOB, C&F and CIF and a positive base_price, total_price is
\* base_price + domestic_transport + freight_cost + insurance, with
\* freight_cost = 0 and insurance = 0 for FOB, insurance = 0 for C&F and
\* domestic_transport the fixed fee for all three.
C8_TotalIsSumOfComponents ==
  \A option \in {"FOB", "C&F", "CIF"} :
    Returned(option)
    => /\ calc_result.base_price = calc_input.base_price * Milli
       /\ calc_result.total_price =
            calc_result.base_price + calc_result.domestic_transport
              + calc_result.freight_cost + calc_result.insurance
       /\ calc_result.domestic_transport = DOMESTIC_TRANSPORT * Milli
       /\ option = "FOB"
            => calc_result.freight_cost = 0 /\ calc_result.insurance = 0
       /\ option = "C&F" => calc_result.insurance = 0

C8_Witness ==
  /\ Returned("CIF")
  /\ calc_result.insurance > 0
  /\ calc_result.freight_cost > 0
  /\ calc_result.total_price > calc_result.base_price + calc_result.insurance

\* C9: for CIF and a positive base_price, insurance is
\* INSURANCE_RATE * (base_price + FREIGHT_COST), not INSURANCE_RATE *
\* base_price; a base_price of 1,000,000 gives insurance 28,750 and
\* total_price 1,228,750.
C9_InsuranceOnCostAndFreight ==
  Returned("CIF")
  => /\ calc_result.insurance =
          INSURANCE_RATE * (calc_input.base_price + FREIGHT_COST)
     /\ calc_result.insurance # INSURANCE_RATE * calc_input.base_price
     /\ calc_input.base_price = 1000000
          => /\ calc_result.insurance = 28750 * Milli
             /\ calc_result.total_price = 1228750 * Milli

C9_Witness ==
  /\ Returned("CIF")
  /\ calc_input.base_price = 1000000
  /\ calc_result.insurance = 28750 * Milli
  /\ calc_result.total_price = 1228750 * Milli

\* C10: for every non-positive base_price the calculator fails with an
\* InvalidPriceError and returns no breakdown.
C10_NonPositiveBaseFails ==
  (calc_status # "pending" /\ calc_input.base_price <= 0)
  => calc_status = "raised"

\* outcome of a numeric offer on a session: accepted when the engine moves
\* to step 'accepted', rejected when the amount is below floor_price and is
\* not accepted, countered otherwise
Outcome(ctx, amount) ==
  IF NegotiationUpdate(ctx, amount).step = "accepted" THEN "accepted"
  ELSE IF amount >= ctx.floor_price THEN "countered"
  ELSE "rejected"

Rank(outcome) ==
  CASE outcome = "rejected" -> 0
    [] outcome = "countered" -> 1
    [] outcome = "accepted" -> 2

\* amounts compared on one session state
ProbeAmounts(ctx) == OfferAmounts(ctx) \cup { a + 500 : a \in OfferAmounts(ctx) }

\* C11: from one reachable session state and two amounts a1 < a2, the outcome
\* of offering a2 is never worse than that of a1 (rejected < countered <
\* accepted).
C11_OutcomeMonotone ==
  negotiation_context # None
  => \A a1, a2 \in ProbeAmounts(negotiation_context) :
       a1 < a2 => Rank(Outcome(negotiation_context, a1))
                    <= Rank(Outcome(negotiation_context, a2))

C11_Witness ==
  /\ Offered
  /\ Truthy(found.last_agent_offer)
  /\ last_call.amount = found.last_agent_offer
  /\ last_call.amount < found.original_price
  /\ negotiation_context.step = "accepted"
  /\ \E a2 \in ProbeAmounts(found) :
       /\ a2 > last_call.amount
       /\ a2 < found.original_price
       /\ Outcome(found, a2) = "accepted"
  /\ \E a0 \in ProbeAmounts(found) :
       a0 < last_call.amount /\ Outcome(found, a0) = "countered"

\* C13: a discount inquiry on an active session sets last_agent_offer to
\* original_price * 0.97 rounded down to a multiple of 1,000 and step to
\* 'countered', and leaves the vehicle, original_price, floor_price and
\* final_price unchanged; with no active session it changes nothing.
C13_DiscountInquiry ==
  last_call.handler = "discount_inquiry"
  => IF found = None
     THEN negotiation_context = None /\ DealsUnchanged
     ELSE /\ negotiation_context.step = "countered"
          /\ negotiation_context.last_agent_offer % 1000 = 0
          /\ negotiation_context.last_agent_offer * 100 <= found.original_price * 97
          /\ found.original_price * 97
               < (negotiation_context.last_agent_offer + 1000) * 100
          /\ negotiation_context.car = found.car
          /\ negotiation_context.original_price = found.original_price
          /\ negotiation_context.floor_price = found.floor_price
          /\ negotiation_context.final_price = found.final_price
          /\ DealsUnchanged

C13_Witness ==
  /\ last_call.handler = "discount_inquiry"
  /\ found # None
  /\ found.original_price = 850000
  /\ found.final_price = 828000
  /\ negotiation_context.last_agent_offer = 824000
  /\ negotiation_context.final_price = 828000
  /\ negotiation_context.step = "countered"

\* C15: accept on an active session whose final_price is set clears the
\* session, and last_deal_context and invoice_to_render both carry the same
\* vehicle and the final_price the session held before the accept.
C15_AcceptHandsOverDeal ==
  (AcceptCalled /\ found.final_price # NoPrice)
  => /\ negotiation_context = None
     /\ last_deal_context.car = found.car
     /\ last_deal_context.final_price = found.final_price
     /\ invoice_to_render.car = found.car
     /\ invoice_to_render.final_price = found.final_price

\* C16: initiate_negotiation creates a fresh session (step 'initial', no
\* agent offer, no final price, original_price the vehicle's price,
\* floor_price = original_price * (1 - 0.12)); until the session is cleared
\* no numeric offer, discount inquiry or accept changes the vehicle,
\* original_price or floor_price.
C16_FreshSessionAndFrame ==
  /\ last_call.handler = "initiate_negotiation"
       => /\ negotiation_context.step = "initial"
          /\ negotiation_context.last_agent_offer = NoPrice
          /\ negotiation_context.final_price = NoPrice
          /\ negotiation_context.car \in Inventory
          /\ negotiation_context.original_price = negotiation_context.car.price
          /\ negotiation_context.floor_price * 100
               = negotiation_context.original_price * 88
          /\ DealsUnchanged
  /\ (/\ last_call.handler \in {"negotiate", "discount_inquiry", "accept_offer"}
      /\ found # None
      /\ negotiation_context # None)
       => /\ negotiation_context.car = found.car
          /\ negotiation_context.original_price = found.original_price
          /\ negotiation_context.floor_price = found.floor_price

\* a session replaced by a new one for another vehicle
C16_Witness ==
  /\ last_call.handler = "initiate_negotiation"
  /\ found # None
  /\ found.last_agent_offer # NoPrice
  /\ found.final_price # NoPrice
  /\ found.car # negotiation_context.car
  /\ negotiation_context.step = "initial"
  /\ negotiation_context.last_agent_offer = NoPrice

\* C17: in every state of an active session with step = 'countered' and
\* final_price set, final_price = last_agent_offer.
C17_AcceptPriceIsLastQuote ==
  (/\ negotiation_context # None
   /\ negotiation_context.step = "countered"
   /\ negotiation_context.final_price # NoPrice)
  => negotiation_context.final_price = negotiation_context.last_agent_offer

\* C18: each new value of last_agent_offer on a session is less than or
\* equal to the value it replaces.
C18_QuotesNeverRise ==
  (/\ last_call.handler \in {"negotiate", "discount_inquiry"}
   /\ found # None
   /\ found.last_agent_offer # NoPrice)
  => negotiation_context.last_agent_offer <= found.last_agent_offer

\* C12: after _handle_reject_offer, from any state, negotiation_context is
\* None and last_deal_context and invoice_to_render are unchanged; a reject
\* applied to the state a reject leaves (no session) changes none of the three.
C12_RejectClears ==
  last_call.handler = "reject_offer"
  => /\ negotiation_context = None
     /\ DealsUnchanged
     /\ found = None
          => <<negotiation_context, last_deal_context, invoice_to_render>>
               = <<found, last_call.before.last_deal_context,
                   last_call.before.invoice_to_render>>

C12_Witness ==
  /\ last_call.handler = "reject_offer"
  /\ found # None
  /\ found.step = "accepted"
  /\ found.final_price # NoPrice
  /\ negotiation_context = None

\* the last step was a respond that found a negotiation active and called
\* one of the handlers named
Responded(handlers) ==
  /\ last_response.active
  /\ last_call.handler \in handlers

\* C14: while a negotiation is active, a respond call classified as
\* negotiate, accept_offer, reject_offer or discount_inquiry does not raise
\* and appends, after the user's message, at least one assistant message;
\* the session is left cleared or with step initial, countered or accepted.
C14_RespondAlwaysReplies ==
  (/\ Responded({"negotiate_params", "accept_offer", "reject_offer",
                 "discount_inquiry"})
   /\ last_response.intent \in {"negotiate", "accept_offer", "reject_offer",
                                "discount_inquiry"})
  => /\ ~last_response.raised
     /\ Len(history) >= last_response.history_len + 2
     /\ history[last_response.history_len + 1] = "user"
     /\ \A i \in (last_response.history_len + 2)..Len(history) :
          history[i] = "assistant"
     /\ \/ negotiation_context = None
        \/ negotiation_context.step \in {"initial", "countered", "accepted"}

\* C19: for every display currency and every quote X of the agent, the
\* amount parsed from the figure displayed for X, typed in the currency it
\* was displayed in, is at least X.
C19_DisplayedFigureMeetsQuote ==
  (/\ Responded({"negotiate_params"})
   /\ negotiation_context.last_agent_offer # NoPrice
   /\ last_response.user_input = QuotedFigure
   /\ last_response.quoted_in = currency)
  => last_response.amount >= negotiation_context.last_agent_offer

\* C20: the message 'show deals' received while a negotiation is active is
\* handled as show_deals: negotiation_context is cleared and
\* last_deal_context and invoice_to_render are unchanged.
C20_ShowDealsClosesNoDeal ==
  (/\ Responded({"show_deals", "accept_offer"})
   /\ last_response.user_input = ShowDeals)
  => /\ last_response.intent = "show_deals"
     /\ negotiation_context = None
     /\ DealsUnchanged

\* the destination is on file
DestinationSet ==
  /\ bot_state.customer_info.country # ""
  /\ bot_state.customer_info.port_of_discharge # ""

\* the last call got a confirming message right after a call that asked
\* whether the buyer is ready to proceed
ConfirmedAfterInvoice ==
  /\ DestinationSet
  /\ bot_call.previous_reply.kind = "ready_to_proceed"
  /\ bot_call.reply.kind # "none"
  /\ ContainsAny(Lower(bot_call.user_input), ConfirmWords)

\* the last call assigned generate_invoice_request
GenerateSet == bot_call.reply.kind = "generating_invoice"

\* C21: with country and port_of_discharge set, after a call whose message
\* contains 'invoice' the next call with a confirming message ('yes',
\* 'proceed', 'confirm', 'i agree') sets generate_invoice_request to True;
\* and generate_invoice_request is set only in a call that found
\* invoice_request_pending true.
C21_InvoiceConfirmationFlow ==
  /\ ConfirmedAfterInvoice
       => /\ GenerateSet
          /\ bot_state.generate_invoice_request = "true"
  /\ GenerateSet => bot_call.before.invoice_request_pending = "true"

\* C21, second half alone: generate_invoice_request changes only in a call
\* that found invoice_request_pending true.
C21_GenerateOnlyWhenPending ==
  /\ GenerateSet => bot_call.before.invoice_request_pending = "true"
  /\ bot_state.generate_invoice_request
       # bot_call.before.generate_invoice_request => GenerateSet

\* an invoice is being generated after a confirmation
C21_GenerateReached ==
  /\ GenerateSet
  /\ bot_state.generate_invoice_request = "true"

====
